---- MODULE Spec2Model ----
(***************************************************************************)
(* hardcopy: copy with Robocopy, then validate the copy by checksum.       *)
(*                                                                         *)
(* The model covers                                                        *)
(*   - the filesystem as two trees (source and destination/candidate),     *)
(*   - the checksum (CRC32C, computed chunk by chunk),                     *)
(*   - the two comparison engines (hardcopy.validaters.ConcurrentValidater *)
(*     and ropycopy.validate.DataValidater),                               *)
(*   - the worker pool that runs the tasks of ConcurrentValidater,         *)
(*   - the two orchestrators (hardcopy.hardcopy and hardcopy.__main__.copy)*)
(*     with the preflight check and the external transfer.                 *)
(***************************************************************************)
EXTENDS Integers, Sequences, FiniteSets, TLC

VARIABLES
    src,        \* the source tree (never written by the program)
    dest,       \* the destination / candidate tree
    prog,       \* which entry point runs in this behaviour
    pc,         \* position of the running call
    attempts,   \* the orchestrator's local `attempts`
    err,        \* the exception a finished call raised, "none" otherwise
    log,        \* what the call did so far: preflights, transfers, validations
    task,       \* ConcurrentValidater: one record per entry of the source tree
    result,     \* outcome of a finished comparison, per engine
    candidates, \* the *copy arguments of a call of is_valid_copy
    platform,   \* sys.platform
    executable, \* the argument of assert_cli_tool
    threadpool, \* the class attribute ConcurrentValidater._threadpool
    caller      \* the threads that read the threadpool property

\* what the orchestrators and the worker-pool run never write
inputs == <<candidates, platform, executable, threadpool, caller>>

vars == <<src, dest, prog, pc, attempts, err, log, task, result, inputs>>

(***************************************************************************)
(* Bounds.                                                                 *)
(***************************************************************************)
\* largest number of entries below the root of a source tree
MaxSrcEntries == 2

\* largest number of entries below the root of a destination tree
MaxDestEntries == 3

\* names an entry of a directory can have
Names == {"a", "b"}

\* contents a regular file can have: b'' and b't'
FileData == {<<>>, <<116>>}

(***************************************************************************)
(* Filesystem.  A tree is a function from relative paths (sequences of     *)
(* names, <<>> is the root) to nodes; a path outside its domain does not   *)
(* exist.  The parent of every path of the domain is a directory.          *)
(***************************************************************************)
DirNode == [dir |-> TRUE, data |-> <<>>]

FileNode(d) == [dir |-> FALSE, data |-> d]

Nodes == {DirNode} \cup {FileNode(d) : d \in FileData}

\* the tree in which not even the root exists
NoTree == [p \in {} |-> DirNode]

EmptyDir == (<<>> :> DirNode)

FileTree(d) == (<<>> :> FileNode(d))

\* pathlib.Path.exists()
exists(t, p) == p \in DOMAIN t

\* pathlib.Path.is_dir(): false for a path that does not exist
is_dir(t, p) == p \in DOMAIN t /\ t[p].dir

\* pathlib.Path.glob('*'): the direct entries of a directory, nothing for
\* a file or a missing path
glob(t, p) == IF is_dir(t, p)
              THEN {q \in DOMAIN t : Len(q) = Len(p) + 1 /\ SubSeq(q, 1, Len(p)) = p}
              ELSE {}

\* pathlib.Path.rglob('*'): every entry below a directory, at any depth
rglob(t, p) == IF is_dir(t, p)
               THEN {q \in DOMAIN t : Len(q) > Len(p) /\ SubSeq(q, 1, Len(p)) = p}
               ELSE {}

\* the trees obtained from t by creating one more entry in one of its directories
Extend(t) ==
    {t @@ (Append(x[1], x[2]) :> x[3]) :
        x \in {y \in {q \in DOMAIN t : t[q].dir} \X Names \X Nodes :
                  Append(y[1], y[2]) \notin DOMAIN t}}

RECURSIVE TreesUpTo(_)
\* the directory trees with at most n entries below the root
TreesUpTo(n) ==
    IF n = 0 THEN {EmptyDir}
    ELSE LET prev == TreesUpTo(n - 1)
         IN  prev \cup UNION {Extend(t) : t \in prev}

FileTrees == {FileTree(d) : d \in FileData}

\* a source exists; a destination may not
SrcTrees == TreesUpTo(MaxSrcEntries) \cup FileTrees

DestTrees == {NoTree} \cup TreesUpTo(MaxDestEntries) \cup FileTrees

(***************************************************************************)
(* Checksum.  A checksum is a 32-bit word, written as the sequence of its  *)
(* bits, least significant first.                                          *)
(***************************************************************************)
CHUNK_SIZE_BYTES == 4096

Word(b) == [i \in 1..32 |-> b]

XorW(x, y) == [i \in 1..32 |-> (x[i] + y[i]) % 2]

ShiftRight(x) == [i \in 1..32 |-> IF i = 32 THEN 0 ELSE x[i + 1]]

RECURSIVE ByteBits(_, _)
ByteBits(b, k) == IF k = 0 THEN <<>> ELSE <<b % 2>> \o ByteBits(b \div 2, k - 1)

ByteWord(b) == ByteBits(b, 8) \o [i \in 1..24 |-> 0]

\* the Castagnoli polynomial, reflected: 0x82F63B78
Castagnoli == <<0,0,0,1,1,1,1,0, 1,1,0,1,1,1,0,0, 0,1,1,0,1,1,1,1, 0,1,0,0,0,0,0,1>>

RECURSIVE CrcBits(_, _)
CrcBits(c, k) ==
    IF k = 0 THEN c
    ELSE CrcBits(IF c[1] = 1 THEN XorW(ShiftRight(c), Castagnoli) ELSE ShiftRight(c), k - 1)

RECURSIVE CrcBytes(_, _)
CrcBytes(data, c) ==
    IF data = <<>> THEN c
    ELSE CrcBytes(Tail(data), CrcBits(XorW(c, ByteWord(Head(data))), 8))

\* crc32c.crc32c(data, value): the CRC32C of data, continued from value
crc32c(data, value) == XorW(CrcBytes(data, XorW(value, Word(1))), Word(1))

\* f.read(CHUNK_SIZE_BYTES): the next chunk of what is left of the file
read(rest) == SubSeq(rest, 1, IF Len(rest) < CHUNK_SIZE_BYTES THEN Len(rest) ELSE CHUNK_SIZE_BYTES)

RECURSIVE ChunkLoop(_, _)
\* the `while True` loop of checksum_in_chunks
ChunkLoop(rest, c) ==
    LET data == read(rest)
    IN  IF data = <<>> THEN c
        ELSE ChunkLoop(SubSeq(rest, Len(data) + 1, Len(rest)), crc32c(data, c))

\* checksum_in_chunks on the bytes of an open file, c = 0 at the start
checksum_in_chunks(bytes) == ChunkLoop(bytes, Word(0))

\* the checksum of every content a file of the model can have
ChecksumOf == [d \in FileData |-> checksum_in_chunks(d)]

\* path.open('rb') of a missing path raises FileNotFoundError; of a
\* directory it raises PermissionError (Windows, the platform of the tool)
get_checksum(t, p) ==
    IF ~exists(t, p) THEN [err |-> "FileNotFoundError", val |-> Word(0)]
    ELSE IF t[p].dir THEN [err |-> "PermissionError", val |-> Word(0)]
    ELSE [err |-> "none", val |-> ChecksumOf[t[p].data]]

(***************************************************************************)
(* Outcomes of a comparison: "True", "False" or the name of the exception  *)
(* it raised.  Where the worker pool decides which of several outcomes a   *)
(* call has, the operators below give the set of the possible ones.        *)
(***************************************************************************)
Outcomes == {"True", "False", "FileNotFoundError", "PermissionError"}

Bool(b) == IF b THEN "True" ELSE "False"

\* compare_checksums with the checksum of the copy compared with itself
compare_checksums_self(s, c, p) ==
    LET src_checksum == get_checksum(s, p)
        copy_checksum == get_checksum(c, p)
    IN  IF src_checksum.err # "none" THEN src_checksum.err
        ELSE IF copy_checksum.err # "none" THEN copy_checksum.err
        ELSE Bool(copy_checksum.val = copy_checksum.val)

\* the file branch of is_valid_copy: the source checksum first, then the copy's
compare_checksums(s, c, p) ==
    LET src_checksum == get_checksum(s, p)
        copy_checksum == get_checksum(c, p)
    IN  IF src_checksum.err # "none" THEN src_checksum.err
        ELSE IF copy_checksum.err # "none" THEN copy_checksum.err
        ELSE Bool(copy_checksum.val = src_checksum.val)

RECURSIVE is_valid_copy(_, _, _)
\* ConcurrentValidater.is_valid_copy(src / p, copy / p) with is_valid_copytree
\* inlined: the set of outcomes over all orders in which the tasks complete
is_valid_copy(s, c, p) ==
    IF is_dir(s, p)
    THEN IF \E e \in glob(s, p) : ~exists(c, e)
         THEN {"False"}
         ELSE LET bad == UNION {is_valid_copy(s, c, e) : e \in glob(s, p)} \ {"True"}
              IN  IF bad = {} THEN {"True"} ELSE bad
    ELSE {compare_checksums(s, c, p)}

\* ConcurrentValidater.is_valid_copytree(src_dir, copy_dir)
is_valid_copytree(s, c) == is_valid_copy(s, c, <<>>)

(***************************************************************************)
(* Preflight and transfer (hardcopy.utils, hardcopy.copiers).              *)
(***************************************************************************)
\* the exit status with which `robocopy /?` reports that it printed its help
HelpExitStatus == 16

\* what subprocess.run([executable, '/?']) can do: raise FileNotFoundError
\* (found = FALSE) or complete with an exit status
ToolRuns == {[found |-> FALSE, returncode |-> 0]}
            \cup {[found |-> TRUE, returncode |-> r] : r \in {0, 1, HelpExitStatus}}

\* assert_cli_tool: "None" when it returns, the exception's name otherwise
assert_cli_tool(run) ==
    IF ~run.found THEN "AssertionError"
    ELSE IF run.returncode # HelpExitStatus THEN "AssertionError"
    ELSE "None"

Event(e, r) == [ev |-> e, res |-> r]

\* the copy is valid: comparing it with the source gives True in every schedule
IsValid(s, d) == is_valid_copy(s, d, <<>>) = {"True"}

\* Robocopy_copy with the preflight run only by the first attempt of a call
Robocopy_copy_once(okpc) ==
    \E run \in ToolRuns :
        IF assert_cli_tool(run) # "None" /\ ~\E i \in DOMAIN log : log[i].ev = "preflight"
        THEN /\ log' = Append(log, Event("preflight", assert_cli_tool(run)))
             /\ pc' = "raised"
             /\ err' = assert_cli_tool(run)
             /\ dest' = dest
        ELSE \E d \in DestTrees :
                /\ dest' = d
                /\ log' = log
                          \o (IF \E i \in DOMAIN log : log[i].ev = "preflight"
                              THEN <<>> ELSE <<Event("preflight", "None")>>)
                          \o <<Event("transfer", IF IsValid(src, d) THEN "valid" ELSE "invalid")>>
                /\ pc' = okpc
                /\ err' = err

\* Robocopy.copy -> Robocopy.run: the preflight, then the robocopy
\* subprocess, whose exit status is ignored (check=False) and which may leave
\* any destination behind.  Control goes to okpc when run returns.
Robocopy_copy(okpc) ==
    \E run \in ToolRuns :
        IF assert_cli_tool(run) # "None"
        THEN /\ log' = Append(log, Event("preflight", assert_cli_tool(run)))
             /\ pc' = "raised"
             /\ err' = assert_cli_tool(run)
             /\ dest' = dest
        ELSE \E d \in DestTrees :
                /\ dest' = d
                /\ log' = log \o <<Event("preflight", "None"),
                                   Event("transfer", IF IsValid(src, d) THEN "valid" ELSE "invalid")>>
                /\ pc' = okpc
                /\ err' = err

(***************************************************************************)
(* hardcopy.hardcopy (src/hardcopy/__init__.py).                           *)
(***************************************************************************)
\* the retry ceiling: the literal 3 of both orchestrators
RetryCeiling == 3

\* validate(src, copy): "None" when it returns, the exception's name
\* otherwise, for an outcome o of Validater().is_valid_copy(src, copy).
\* __init__.py binds Validater to the name SerialValidater of
\* hardcopy.validaters, which defines ConcurrentValidater only: the
\* outcomes are those of ConcurrentValidater.is_valid_copy.
validate(o) == IF o = "True" THEN "None"
               ELSE IF o = "False" THEN "AssertionError"
               ELSE o

\* hardcopy_while with the ceiling compared by <=
hardcopy_while_inclusive(n, d) == n <= RetryCeiling /\ ~exists(d, <<>>)

\* the condition of the while loop of hardcopy
hardcopy_while(n, d) == n < RetryCeiling /\ ~exists(d, <<>>)

\* h_While with the loop entered whether or not the destination exists
h_While_always_copy ==
    /\ prog = "hardcopy" /\ pc = "h_while"
    /\ pc' = IF attempts < RetryCeiling THEN "h_copy" ELSE "h_final"
    /\ UNCHANGED <<inputs, src, dest, prog, attempts, err, log, task, result>>

\* line 27: evaluate the loop condition
h_While ==
    /\ prog = "hardcopy" /\ pc = "h_while"
    /\ pc' = IF hardcopy_while(attempts, dest) THEN "h_copy" ELSE "h_final"
    /\ UNCHANGED <<inputs, src, dest, prog, attempts, err, log, task, result>>

\* h_Copy with copy(src, dest) inside the try statement: the AssertionError
\* of the preflight is handled like a failed validation
h_Copy_in_try ==
    /\ prog = "hardcopy" /\ pc = "h_copy"
    /\ \E run \in ToolRuns :
        IF assert_cli_tool(run) # "None"
        THEN /\ log' = Append(log, Event("preflight", assert_cli_tool(run)))
             /\ pc' = "h_while"
             /\ attempts' = attempts + 1
             /\ UNCHANGED <<dest, err>>
        ELSE \E d \in DestTrees :
                /\ dest' = d
                /\ log' = log \o <<Event("preflight", "None"),
                                   Event("transfer", IF IsValid(src, d) THEN "valid" ELSE "invalid")>>
                /\ pc' = "h_validate"
                /\ UNCHANGED <<attempts, err>>
    /\ UNCHANGED <<inputs, src, prog, task, result>>

\* line 28: copy(src, dest), outside the try statement
h_Copy ==
    /\ prog = "hardcopy" /\ pc = "h_copy"
    /\ Robocopy_copy("h_validate")
    /\ UNCHANGED <<inputs, src, prog, attempts, task, result>>

\* lines 29-35: validate(src, dest) inside try / except AssertionError / else
h_Validate ==
    /\ prog = "hardcopy" /\ pc = "h_validate"
    /\ \E o \in is_valid_copy(src, dest, <<>>) :
        /\ log' = Append(log, Event("validate", o))
        /\ IF validate(o) = "None"
           THEN pc' = "returned" /\ UNCHANGED <<attempts, err>>
           ELSE IF validate(o) = "AssertionError"
           THEN pc' = "h_while" /\ attempts' = attempts + 1 /\ UNCHANGED err
           ELSE pc' = "raised" /\ err' = validate(o) /\ UNCHANGED attempts
    /\ UNCHANGED <<inputs, src, dest, prog, task, result>>

\* h_Final with the outcome of the last validation ignored
h_Final_silent ==
    /\ prog = "hardcopy" /\ pc = "h_final"
    /\ \E o \in is_valid_copy(src, dest, <<>>) :
        log' = Append(log, Event("validate", o))
    /\ pc' = "returned"
    /\ UNCHANGED <<inputs, src, dest, prog, attempts, err, task, result>>

\* line 36: the validate(src, dest) after the loop
h_Final ==
    /\ prog = "hardcopy" /\ pc = "h_final"
    /\ \E o \in is_valid_copy(src, dest, <<>>) :
        /\ log' = Append(log, Event("validate", o))
        /\ IF validate(o) = "None"
           THEN pc' = "returned" /\ UNCHANGED err
           ELSE pc' = "raised" /\ err' = validate(o)
    /\ UNCHANGED <<inputs, src, dest, prog, attempts, task, result>>

(***************************************************************************)
(* hardcopy.__main__.copy (src/hardcopy/__main__.py).                      *)
(***************************************************************************)
\* m_While with attempts < 3 as the first operand of `and`: at the ceiling
\* the loop ends without a validation
m_While_ceiling_first ==
    /\ prog = "main" /\ pc = "m_while"
    /\ IF attempts >= RetryCeiling \/ ~exists(dest, <<>>)
       THEN /\ pc' = IF attempts < RetryCeiling THEN "m_copy" ELSE "returned"
            /\ UNCHANGED <<log, err>>
       ELSE \E o \in is_valid_copy(src, dest, <<>>) :
            /\ log' = Append(log, Event("validate", o))
            /\ IF o = "True" THEN pc' = "returned" /\ UNCHANGED err
               ELSE IF o = "False" THEN pc' = "m_copy" /\ UNCHANGED err
               ELSE pc' = "raised" /\ err' = o
    /\ UNCHANGED <<inputs, src, dest, prog, attempts, task, result>>

\* lines 14-20: the loop condition; validate is called only when the
\* destination exists, and attempts < 3 is looked at only when the first
\* operand of `and` is true
m_While ==
    /\ prog = "main" /\ pc = "m_while"
    /\ IF ~exists(dest, <<>>)
       THEN /\ pc' = IF attempts < RetryCeiling THEN "m_copy" ELSE "returned"
            /\ UNCHANGED <<log, err>>
       ELSE \E o \in is_valid_copy(src, dest, <<>>) :
            /\ log' = Append(log, Event("validate", o))
            /\ IF o = "True" THEN pc' = "returned" /\ UNCHANGED err
               ELSE IF o = "False"
               THEN /\ pc' = IF attempts < RetryCeiling THEN "m_copy" ELSE "returned"
                    /\ UNCHANGED err
               ELSE pc' = "raised" /\ err' = o
    /\ UNCHANGED <<inputs, src, dest, prog, attempts, task, result>>

\* lines 21-22: Robocopy.copy(src, dest); attempts += 1
m_Copy ==
    /\ prog = "main" /\ pc = "m_copy"
    /\ Robocopy_copy("m_while")
    /\ attempts' = IF pc' = "raised" THEN attempts ELSE attempts + 1
    /\ UNCHANGED <<inputs, src, prog, task, result>>

\* sys.platform of the platform of the tool, as the sequence of its characters
Win32 == <<"w", "i", "n", "3", "2">>

\* the class attribute _threadpool before its first access: attr = 0 stands
\* for the missing attribute, created counts the executors constructed
NoPool == [attr |-> 0, created |-> 0]

NoCallers == [t \in {} |-> 0]

\* the inputs of the operations that a call of an orchestrator or of a
\* single comparison does not use
NoInputs ==
    /\ candidates = <<>>
    /\ platform = Win32
    /\ executable = "robocopy"
    /\ threadpool = NoPool
    /\ caller = NoCallers

NoTasks == [p \in {} |-> 0]

NoResult == [concurrent |-> "none", data |-> "none"]

Init ==
    /\ src \in SrcTrees
    /\ dest \in DestTrees
    /\ prog \in {"hardcopy", "main"}
    /\ pc = IF prog = "hardcopy" THEN "h_while" ELSE "m_while"
    /\ attempts = 0
    /\ err = "none"
    /\ log = <<>>
    /\ task = NoTasks
    /\ result = NoResult
    /\ NoInputs

Next == h_While \/ h_Copy \/ h_Validate \/ h_Final \/ m_While \/ m_Copy

Spec == Init /\ [][Next]_vars

(***************************************************************************)
(* ropycopy.validate.DataValidater: the source directory is walked with    *)
(* rglob, two futures are submitted per entry (copy_path.exists and        *)
(* is_valid_copy) and the loop waits for the futures after every entry.    *)
(***************************************************************************)
\* DataValidater.get_checksum: crc32c of read_bytes(), the whole file at once
Data_get_checksum(t, p) ==
    IF ~exists(t, p) THEN [err |-> "FileNotFoundError", val |-> Word(0)]
    ELSE IF t[p].dir THEN [err |-> "PermissionError", val |-> Word(0)]
    ELSE [err |-> "none", val |-> crc32c(t[p].data, Word(0))]

\* the file branch of DataValidater.is_valid_copy
Data_compare_checksums(s, c, p) ==
    LET target == Data_get_checksum(s, p)
        other == Data_get_checksum(c, p)
    IN  IF target.err # "none" THEN target.err
        ELSE IF other.err # "none" THEN other.err
        ELSE Bool(other.val = target.val)

RECURSIVE Data_is_valid_copy(_, _, _)
\* DataValidater.is_valid_copy(src / p, copy / p) with is_valid_copytree
\* inlined: the set of its possible outcomes.  For one entry e the futures
\* of copy_path.exists and of is_valid_copy are yielded by as_completed in
\* the order in which they complete: a missing copy_path gives False when
\* the exists future is seen first and the exception of is_valid_copy when
\* that future is seen first.
Data_is_valid_copy(s, c, p) ==
    IF is_dir(s, p)
    THEN LET entry(e) ==
                 IF exists(c, e) THEN Data_is_valid_copy(s, c, e)
                 ELSE {"False"} \cup (Data_is_valid_copy(s, c, e) \ {"True"})
             bad == UNION {entry(e) : e \in rglob(s, p)} \ {"True"}
         IN  IF bad = {} THEN {"True"} ELSE bad
    ELSE {Data_compare_checksums(s, c, p)}

(***************************************************************************)
(* ConcurrentValidater run by the worker pool.  task[p] is the call         *)
(* is_valid_copy(src / p, copy / p): the call of the root runs in the       *)
(* caller's thread, the call of every other entry is a future of the        *)
(* shared pool, submitted by the is_valid_copytree of its parent.           *)
(***************************************************************************)
\* ThreadPoolExecutor(): the smallest default of max_workers, min(32, cpu + 4)
max_workers == 5

Range(f) == {f[i] : i \in DOMAIN f}

\* a future nobody has submitted yet
NewTask == [st |-> "new", phase |-> "none", todo |-> {}, subm |-> <<>>,
            seen |-> {}, ci |-> 0, out |-> "none"]

\* the state of a call when it starts to run: is_valid_copy looks at
\* src.is_dir() and either enters is_valid_copytree or computes checksums
StartedTask(s, p) ==
    [st |-> "running",
     phase |-> IF is_dir(s, p) THEN (IF glob(s, p) = {} THEN "wait" ELSE "submit")
               ELSE "checksum",
     todo |-> glob(s, p), subm |-> <<>>, seen |-> {}, ci |-> 0, out |-> "none"]

\* workers of the pool that run a task
Busy == Cardinality({p \in DOMAIN task : p # <<>> /\ task[p].st = "running"})

\* the call of p ends with outcome o; the root's outcome is the result
Finish(p, o) ==
    /\ task' = [task EXCEPT ![p].st = "done", ![p].out = o]
    /\ result' = IF p = <<>> THEN [result EXCEPT !.concurrent = o] ELSE result
    /\ pc' = IF p = <<>> THEN "c_returned" ELSE pc

\* a worker takes a pending future from the queue of the pool
c_Run ==
    \E p \in DOMAIN task :
    /\ task[p].st = "pending"
    /\ Busy < max_workers
    /\ task' = [task EXCEPT ![p] = StartedTask(src, p)]
    /\ UNCHANGED <<inputs, src, dest, prog, pc, attempts, err, log, result>>

\* lines 122-123: the checksums of a source file and of its copy
c_Checksum ==
    \E p \in DOMAIN task :
    /\ task[p].st = "running" /\ task[p].phase = "checksum"
    /\ Finish(p, compare_checksums(src, dest, p))
    /\ UNCHANGED <<inputs, src, dest, prog, attempts, err, log>>

\* lines 142-154: one iteration of the loop over src_dir.glob('*')
c_Submit ==
    \E p \in DOMAIN task :
    /\ task[p].st = "running" /\ task[p].phase = "submit"
    /\ \E e \in task[p].todo :
        IF ~exists(dest, e)
        THEN task' = [task EXCEPT ![p].phase = "cancel", ![p].ci = 1]
        ELSE task' = [task EXCEPT
                        ![e].st = "pending",
                        ![p].subm = Append(@, e),
                        ![p].todo = @ \ {e},
                        ![p].phase = IF task[p].todo = {e} THEN "wait" ELSE "submit"]
    /\ UNCHANGED <<inputs, src, dest, prog, pc, attempts, err, log, result>>

\* c_Result with the loop over as_completed run to its end: a False result
\* is remembered and the remaining futures are still waited for
c_Result_collect ==
    \E p \in DOMAIN task :
    /\ task[p].st = "running" /\ task[p].phase = "wait"
    /\ \E e \in Range(task[p].subm) \ task[p].seen :
        /\ task[e].st = "done"
        /\ IF task[e].out = "True"
           THEN /\ task' = [task EXCEPT ![p].seen = @ \cup {e}]
                /\ UNCHANGED <<pc, result>>
           ELSE IF task[e].out = "False"
           THEN /\ task' = [task EXCEPT
                              ![p].seen = @ \cup {e},
                              ![p].ci = 1,
                              ![p].phase = IF task[p].seen \cup {e} = Range(task[p].subm)
                                           THEN "cancel" ELSE "wait"]
                /\ UNCHANGED <<pc, result>>
           ELSE Finish(p, task[e].out)
    /\ UNCHANGED <<inputs, src, dest, prog, attempts, err, log>>

\* lines 156-159: as_completed yields a finished future; its result is
\* read with future.result(), which raises what the task raised
c_Result ==
    \E p \in DOMAIN task :
    /\ task[p].st = "running" /\ task[p].phase = "wait"
    /\ \E e \in Range(task[p].subm) \ task[p].seen :
        /\ task[e].st = "done"
        /\ IF task[e].out = "True"
           THEN /\ task' = [task EXCEPT ![p].seen = @ \cup {e}]
                /\ UNCHANGED <<pc, result>>
           ELSE IF task[e].out = "False"
           THEN /\ task' = [task EXCEPT ![p].phase = "cancel", ![p].ci = 1]
                /\ UNCHANGED <<pc, result>>
           ELSE Finish(p, task[e].out)
    /\ UNCHANGED <<inputs, src, dest, prog, attempts, err, log>>

\* lines 160-161: every future was yielded and none was False
c_ReturnTrue ==
    \E p \in DOMAIN task :
    /\ task[p].st = "running" /\ task[p].phase = "wait"
    /\ task[p].seen = Range(task[p].subm)
    /\ Finish(p, "True")
    /\ UNCHANGED <<inputs, src, dest, prog, attempts, err, log>>

\* lines 163-164: future.cancel() on the next submitted future; only a
\* future that no worker has taken yet is cancelled
c_Cancel ==
    \E p \in DOMAIN task :
    /\ task[p].st = "running" /\ task[p].phase = "cancel"
    /\ task[p].ci <= Len(task[p].subm)
    /\ LET e == task[p].subm[task[p].ci]
       IN  task' = [task EXCEPT
                      ![p].ci = @ + 1,
                      ![e].st = IF @ = "pending" THEN "cancelled" ELSE @]
    /\ UNCHANGED <<inputs, src, dest, prog, pc, attempts, err, log, result>>

\* c_ReturnFalse without the cancel loop run to its end
c_ReturnFalse_early ==
    \E p \in DOMAIN task :
    /\ task[p].st = "running" /\ task[p].phase = "cancel"
    /\ Finish(p, "False")
    /\ UNCHANGED <<inputs, src, dest, prog, attempts, err, log>>

\* lines 166-171: after the cancel loop
c_ReturnFalse ==
    \E p \in DOMAIN task :
    /\ task[p].st = "running" /\ task[p].phase = "cancel"
    /\ task[p].ci > Len(task[p].subm)
    /\ Finish(p, "False")
    /\ UNCHANGED <<inputs, src, dest, prog, attempts, err, log>>

\* the same pair of trees given to DataValidater.is_valid_copy
d_Compare ==
    /\ prog = "validate" /\ pc = "c_returned"
    /\ result.data = "none"
    /\ \E o \in Data_is_valid_copy(src, dest, <<>>) :
        result' = [result EXCEPT !.data = o]
    /\ UNCHANGED <<inputs, src, dest, prog, pc, attempts, err, log, task>>

InitConc ==
    /\ src \in SrcTrees
    /\ dest \in DestTrees
    /\ prog = "validate"
    /\ pc = "c_call"
    /\ attempts = 0
    /\ err = "none"
    /\ log = <<>>
    /\ task = [p \in DOMAIN src |-> IF p = <<>> THEN StartedTask(src, p) ELSE NewTask]
    /\ result = NoResult
    /\ NoInputs

NextConc ==
    \/ c_Run
    \/ c_Checksum
    \/ c_Submit
    \/ c_Result
    \/ c_ReturnTrue
    \/ c_Cancel
    \/ c_ReturnFalse
    \/ d_Compare

SpecConc == InitConc /\ [][NextConc]_vars

(***************************************************************************)
(* The worker pool on a deep source: directories nested n deep, each       *)
(* named 1, with one file, named 0, in the innermost one.                  *)
(***************************************************************************)
\* the path of the directory k levels below the root
Nested(k) == [i \in 1..k |-> 1]

\* n nested directories below the root; the innermost one holds a file
\* with the content data, or nothing when data is "none"
DeepTree(n, data) ==
    [p \in {Nested(k) : k \in 0..n}
           \cup (IF data = "none" THEN {} ELSE {Append(Nested(n), 0)}) |->
        IF Len(p) = n + 1 THEN FileNode(data) ELSE DirNode]

\* the copies of a deep source with an empty file: exact, with the file
\* changed, without the file, and with one more directory but no file
DeepCopies(n) ==
    {DeepTree(n, <<>>), DeepTree(n, <<116>>), DeepTree(n, "none"), DeepTree(n + 1, "none")}

\* one level more than the pool has workers is enough to need them all
InitDeep ==
    /\ \E n \in 0..max_workers :
        /\ src = DeepTree(n, <<>>)
        /\ dest \in DeepCopies(n)
    /\ prog = "validate"
    /\ pc = "c_call"
    /\ attempts = 0
    /\ err = "none"
    /\ log = <<>>
    /\ task = [p \in DOMAIN src |-> IF p = <<>> THEN StartedTask(src, p) ELSE NewTask]
    /\ result = NoResult
    /\ NoInputs

SpecDeep == InitDeep /\ [][NextConc]_vars

\* the outcome of the worker-pool run is one that is_valid_copy lists
OutcomeListed ==
    pc = "c_returned" => result.concurrent \in is_valid_copy(src, dest, <<>>)

(***************************************************************************)
(* is_valid_copy with several candidates: is_valid_copy(src, *copy).       *)
(***************************************************************************)
\* largest number of candidates of one call
MaxCandidates == 2

\* most entries of a tree of a call with several candidates
MaxSmallEntries == 1

\* the trees of the calls with several candidates
SmallTrees == TreesUpTo(MaxSmallEntries) \cup FileTrees

RECURSIVE all_equal(_, _, _)
\* line 123: all(self.get_checksum(c) == src_checksum for c in copy), from
\* the i-th candidate on; all stops at the first candidate that differs
all_equal(cs, i, src_checksum) ==
    IF i > Len(cs) THEN "True"
    ELSE LET c == get_checksum(cs[i], <<>>)
         IN  IF c.err # "none" THEN c.err
             ELSE IF c.val # src_checksum THEN "False"
             ELSE all_equal(cs, i + 1, src_checksum)

\* lines 120-123: is_valid_copy(src, *copy).  For a directory the
\* candidates are passed on as is_valid_copytree(src, *copy), a method with
\* the two parameters src_dir and copy_dir: any other number of candidates
\* than one is a TypeError of the call.
is_valid_copy_star(s, cs) ==
    IF is_dir(s, <<>>)
    THEN IF Len(cs) = 1 THEN is_valid_copytree(s, cs[1]) ELSE {"TypeError"}
    ELSE LET src_checksum == get_checksum(s, <<>>)
         IN  IF src_checksum.err # "none" THEN {src_checksum.err}
             ELSE {all_equal(cs, 1, src_checksum.val)}

\* one call of is_valid_copy(src, *candidates)
v_Call ==
    /\ prog = "is_valid_copy" /\ pc = "v_call"
    /\ \E o \in is_valid_copy_star(src, candidates) :
        result' = [result EXCEPT !.concurrent = o]
    /\ pc' = "v_returned"
    /\ UNCHANGED <<inputs, src, dest, prog, attempts, err, log, task>>

InitCopies ==
    /\ src \in SmallTrees
    /\ dest = NoTree
    /\ prog = "is_valid_copy"
    /\ pc = "v_call"
    /\ attempts = 0
    /\ err = "none"
    /\ log = <<>>
    /\ task = NoTasks
    /\ result = NoResult
    /\ \E n \in 1..MaxCandidates : candidates \in [1..n -> {NoTree} \cup SmallTrees]
    /\ platform = Win32
    /\ executable = "robocopy"
    /\ threadpool = NoPool
    /\ caller = NoCallers

NextCopies == v_Call

SpecCopies == InitCopies /\ [][NextCopies]_vars

(***************************************************************************)
(* assert_cli_tool with the platform (hardcopy.utils, ropycopy.utils).     *)
(***************************************************************************)
\* values of sys.platform
Platforms ==
    {<<"w", "i", "n", "3", "2">>,
     <<"c", "y", "g", "w", "i", "n">>,
     <<"m", "s", "y", "s">>,
     <<"d", "a", "r", "w", "i", "n">>,
     <<"l", "i", "n", "u", "x">>,
     <<"l", "i", "n", "u", "x", "2">>,
     <<"a", "i", "x">>,
     <<"f", "r", "e", "e", "b", "s", "d">>,
     <<"o", "p", "e", "n", "b", "s", "d">>,
     <<"n", "e", "t", "b", "s", "d">>,
     <<"s", "u", "n", "o", "s", "5">>,
     <<"e", "m", "s", "c", "r", "i", "p", "t", "e", "n">>,
     <<"w", "a", "s", "i">>,
     <<"a", "n", "d", "r", "o", "i", "d">>,
     <<"i", "o", "s">>}

\* sub in s: s has sub as a run of consecutive characters
Contains(sub, str) ==
    \E i \in 0..(Len(str) - Len(sub)) : SubSeq(str, i + 1, i + Len(sub)) = sub

\* ON_WINDOWS: bool = 'win' in sys.platform
ON_WINDOWS(p) == Contains(<<"w", "i", "n">>, p)

\* assert_cli_tool(executable) on platform p when subprocess.run does what
\* run says: which AssertionError it raises, "None" when it returns
assert_cli_tool_on(p, exe, run) ==
    IF ~run.found
    THEN IF ~ON_WINDOWS(p) /\ exe = "robocopy"
         THEN "robocopy is only available on Windows"
         ELSE "could not be found in PATH"
    ELSE IF run.returncode # HelpExitStatus
    THEN "returned exit status"
    ELSE "None"

\* one call of assert_cli_tool(executable)
p_Assert ==
    /\ prog = "assert_cli_tool" /\ pc = "p_call"
    /\ \E run \in ToolRuns :
        /\ log' = <<[ev |-> "subprocess",
                     res |-> IF run.found THEN "completed" ELSE "FileNotFoundError",
                     returncode |-> run.returncode]>>
        /\ err' = assert_cli_tool_on(platform, executable, run)
        /\ pc' = IF err' = "None" THEN "returned" ELSE "raised"
    /\ UNCHANGED <<inputs, src, dest, prog, attempts, task, result>>

InitPreflight ==
    /\ src = EmptyDir
    /\ dest = NoTree
    /\ prog = "assert_cli_tool"
    /\ pc = "p_call"
    /\ attempts = 0
    /\ err = "none"
    /\ log = <<>>
    /\ task = NoTasks
    /\ result = NoResult
    /\ candidates = <<>>
    /\ platform \in Platforms
    /\ executable \in {"robocopy", "not-robocopy"}
    /\ threadpool = NoPool
    /\ caller = NoCallers

NextPreflight == p_Assert

SpecPreflight == InitPreflight /\ [][NextPreflight]_vars

(***************************************************************************)
(* The threadpool property of ConcurrentValidater, read by several threads *)
(* (validaters.py lines 66-71).  Executors are numbered in the order of    *)
(* their construction.                                                     *)
(***************************************************************************)
\* threads that call is_valid_copytree
NumCallers == 2

\* futures one caller submits
MaxSubmits == 2

Callers == 1..NumCallers

\* a caller before its first access: pool is the executor its access
\* returned, used the executors it has submitted a future to
NewCaller == [pc |-> "t_get", pool |-> 0, n |-> 0, used |-> {}]

\* lines 68-69: return self._threadpool unless the attribute is missing
t_Get ==
    \E t \in Callers :
    /\ caller[t].pc = "t_get"
    /\ caller' = [caller EXCEPT
                    ![t].pool = threadpool.attr,
                    ![t].pc = IF threadpool.attr = 0 THEN "t_create" ELSE "t_submit"]
    /\ UNCHANGED <<threadpool, candidates, platform, executable,
                   src, dest, prog, pc, attempts, err, log, task, result>>

\* line 70: self.__class__._threadpool = ThreadPoolExecutor()
t_Create ==
    \E t \in Callers :
    /\ caller[t].pc = "t_create"
    /\ threadpool' = [attr |-> threadpool.created + 1, created |-> threadpool.created + 1]
    /\ caller' = [caller EXCEPT ![t].pc = "t_get"]
    /\ UNCHANGED <<candidates, platform, executable,
                   src, dest, prog, pc, attempts, err, log, task, result>>

\* lines 148-154: self.threadpool.submit(self.is_valid_copy, ...) on the
\* executor the property returned; the next submit reads the property again
t_Submit ==
    \E t \in Callers :
    /\ caller[t].pc = "t_submit"
    /\ caller' = [caller EXCEPT
                    ![t].used = @ \cup {caller[t].pool},
                    ![t].n = @ + 1,
                    ![t].pc = IF caller[t].n + 1 < MaxSubmits THEN "t_get" ELSE "t_done"]
    /\ UNCHANGED <<threadpool, candidates, platform, executable,
                   src, dest, prog, pc, attempts, err, log, task, result>>

InitPool ==
    /\ src = EmptyDir
    /\ dest = EmptyDir
    /\ prog = "threadpool"
    /\ pc = "t_call"
    /\ attempts = 0
    /\ err = "none"
    /\ log = <<>>
    /\ task = NoTasks
    /\ result = NoResult
    /\ candidates = <<>>
    /\ platform = Win32
    /\ executable = "robocopy"
    /\ threadpool = NoPool
    /\ caller = [t \in Callers |-> NewCaller]

NextPool == t_Get \/ t_Create \/ t_Submit

SpecPool == InitPool /\ [][NextPool]_vars

(***************************************************************************)
(* Properties.                                                             *)
(***************************************************************************)
Terminal == pc \in {"returned", "raised"}

Last(q) == q[Len(q)]

\* the positions of the log with an event of kind e
Idx(e) == {i \in DOMAIN log : log[i].ev = e}

Num(e) == Cardinality(Idx(e))

\* the call began with a transfer attempt, none of its preflights failed
\* and every validation it ran returned a boolean
CleanRun ==
    /\ log # <<>> /\ log[1].ev = "preflight"
    /\ \A i \in Idx("preflight") : log[i].res = "None"
    /\ \A i \in Idx("validate") : log[i].res \in {"True", "False"}

\* the i-th event is the n-th transfer of the call
IsNthTransfer(i, n) == Cardinality({j \in Idx("transfer") : j <= i}) = n

\* C1: with a transfer that never leaves a valid copy, hardcopy invokes the
\* transfer exactly 3 times and then raises AssertionError
C1_ThreeTransfersThenError ==
    (/\ prog = "hardcopy" /\ Terminal /\ CleanRun
     /\ \A i \in Idx("transfer") : log[i].res = "invalid")
    => (Num("transfer") = RetryCeiling /\ pc = "raised" /\ err = "AssertionError")

\* C2: with a transfer whose first two invocations leave an invalid
\* destination and whose third leaves a valid copy, hardcopy returns
\* normally after exactly 3 transfers
C2_ThirdAttemptSucceeds ==
    (/\ prog = "hardcopy" /\ Terminal /\ CleanRun
     /\ \A i \in Idx("transfer") :
            log[i].res = IF IsNthTransfer(i, RetryCeiling) THEN "valid" ELSE "invalid")
    => (Num("transfer") = RetryCeiling /\ pc = "returned")

LastIsValidationTrue == log # <<>> /\ Last(log) = Event("validate", "True")

\* C3: hardcopy returns normally exactly when the last thing it did was a
\* validation that returned true; every other finished call has raised
C3_ReturnsOnlyAfterTrue ==
    prog = "hardcopy" =>
        /\ LastIsValidationTrue <=> pc = "returned"
        /\ (Terminal /\ ~LastIsValidationTrue) => (pc = "raised" /\ err # "none")

\* hardcopy returned after two failed validations and a third, true one
C3_Witness ==
    prog = "hardcopy" /\ pc = "returned" /\ attempts = 2 /\ Num("transfer") = 3

\* C4: __main__.copy raises AssertionError when the destination is still
\* not a valid copy once the attempt counter has reached 3
C4_MainRaisesAtCeiling ==
    (/\ prog = "main" /\ Terminal /\ CleanRun
     /\ attempts = RetryCeiling
     /\ ~IsValid(src, dest))
    => (pc = "raised" /\ err = "AssertionError")

\* C5: is_valid_copy(src, candidate) returns False whenever the candidate
\* does not exist
C5_MissingCandidateIsFalse ==
    (prog = "validate" /\ pc = "c_returned" /\ ~exists(dest, <<>>))
    => result.concurrent = "False"

\* every entry below the source root has a counterpart in the copy: a file
\* with the same checksum for a file, anything that exists for a directory
EveryEntryHasCounterpart ==
    \A e \in DOMAIN src \ {<<>>} :
        /\ exists(dest, e)
        /\ ~src[e].dir =>
              /\ ~dest[e].dir
              /\ checksum_in_chunks(dest[e].data) = checksum_in_chunks(src[e].data)

\* C6: is_valid_copytree returns True exactly when every entry below the
\* source directory, at any depth, has a counterpart at the same relative
\* path of the copy; what exists only in the copy plays no part
C6_TrueIffCounterparts ==
    (prog = "validate" /\ pc = "c_returned" /\ is_dir(src, <<>>))
    => (result.concurrent = "True" <=> EveryEntryHasCounterpart)

\* True for a source with a file in a subdirectory and a copy with one
\* entry more than the source
C6_Witness ==
    /\ prog = "validate" /\ pc = "c_returned" /\ result.concurrent = "True"
    /\ \E e \in DOMAIN src : Len(e) = 2 /\ ~src[e].dir
    /\ \E e \in DOMAIN dest : e \notin DOMAIN src

\* C7: for fixed trees the outcome of is_valid_copytree is the same in
\* every order in which the tasks start and complete
C7_OutcomeIndependentOfSchedule ==
    (prog = "validate" /\ pc = "c_returned")
    => is_valid_copy(src, dest, <<>>) = {result.concurrent}

\* C8: ConcurrentValidater and DataValidater give the same boolean for
\* every pair of trees
C8_EnginesAgree ==
    (prog = "validate" /\ result.concurrent \in {"True", "False"} /\ result.data # "none")
    => result.data = result.concurrent

\* C9 as stated: a call that transfers at all runs the preflight check
\* exactly once, before its first transfer
C9_PreflightOncePerCall ==
    (prog \in {"hardcopy", "main"} /\ Terminal /\ Num("transfer") >= 1)
    => (Num("preflight") = 1 /\ \A i \in Idx("transfer") : \E j \in Idx("preflight") : j < i)

\* C9 as amended: the preflight check runs once per transfer attempt, right
\* before the transfer of that attempt; it is repeated on every retry
C9_PreflightBeforeEveryTransfer ==
    prog \in {"hardcopy", "main"} =>
        /\ \A i \in Idx("transfer") : i > 1 /\ log[i - 1] = Event("preflight", "None")
        /\ \A i \in Idx("preflight") :
              log[i].res = "None" => (i < Len(log) /\ log[i + 1].ev = "transfer")
        /\ Num("preflight") >= Num("transfer")

\* a call that retried: three transfers, each with its own preflight
C9_Witness ==
    prog \in {"hardcopy", "main"} /\ Num("transfer") = 3 /\ Num("preflight") = 3

\* C10: a failing preflight ends hardcopy at once with its AssertionError:
\* no transfer, no validation and no retry follow it, and it does not
\* count as an attempt
C10_PreflightFailureIsFatal ==
    prog = "hardcopy" =>
        \A i \in Idx("preflight") :
            log[i].res # "None" =>
                /\ i = Len(log)
                /\ pc = "raised" /\ err = "AssertionError"
                /\ Num("transfer") = Num("preflight") - 1
                /\ attempts = Cardinality({j \in Idx("validate") : log[j].res = "False"})

\* the preflight of a retry attempt failed
C10_Witness ==
    /\ prog = "hardcopy" /\ pc = "raised" /\ attempts = 1
    /\ log # <<>> /\ Last(log) = Event("preflight", "AssertionError")

\* exceptions of open() and read()
IOErrors == {"FileNotFoundError", "PermissionError"}

\* C11: an I/O error raised while a checksum is computed, in the
\* coordinator or in a worker task, is never turned into a False result:
\* when the comparison decides on False no task of it has raised one
C11_ChecksumErrorPropagates ==
    [][(/\ prog = "validate"
        /\ task[<<>>].phase # "cancel"
        /\ task'[<<>>].phase = "cancel")
       => ~\E e \in DOMAIN task : task[e].st = "done" /\ task[e].out \in IOErrors]_vars

\* C12: for a directory src, is_valid_copy(src, c1, ..., cn) is True exactly
\* when is_valid_copytree(src, ci) is True for every candidate, for every
\* number n >= 1 of candidates
C12_EveryCandidateCompared ==
    (prog = "is_valid_copy" /\ pc = "v_returned" /\ is_dir(src, <<>>))
    => (result.concurrent = "True"
        <=> \A i \in DOMAIN candidates : is_valid_copytree(src, candidates[i]) = {"True"})

\* C13: when robocopy cannot be located and the process does not run on
\* Windows, assert_cli_tool fails with the platform-unsupported condition,
\* whatever the platform identifier
C13_PlatformUnsupported ==
    (/\ prog = "assert_cli_tool" /\ pc = "raised"
     /\ executable = "robocopy"
     /\ log[1].res = "FileNotFoundError"
     /\ platform # Win32)
    => err = "robocopy is only available on Windows"

\* C14: after it has observed a failure the coordinator of a directory
\* reads no further result: it goes on to the cancel loop and returns False
\* whatever the state of the tasks it submitted
C14_FirstFailureWins ==
    [][\A p \in DOMAIN task :
          (task[p].st = "running" /\ task[p].ci >= 1)
          => /\ task'[p].seen = task[p].seen
             /\ task[p].phase = "cancel"
             /\ \/ task'[p].phase = "cancel" /\ task'[p].st = "running"
                \/ task'[p].st = "done" /\ task'[p].out = "False"]_vars

\* the call has returned False while a task it submitted is still running
C14_Witness ==
    /\ prog = "validate"
    /\ task[<<>>].st = "done" /\ task[<<>>].out = "False"
    /\ \E e \in Range(task[<<>>].subm) : task[e].st = "running"

\* the worker that runs p is blocked in as_completed: none of the futures
\* it waits for is finished
Blocked(p) ==
    /\ task[p].st = "running" /\ task[p].phase = "wait"
    /\ task[p].seen # Range(task[p].subm)
    /\ \A e \in Range(task[p].subm) \ task[p].seen : task[e].st \in {"pending", "running"}

\* C15: no reachable state has every worker of the pool blocked on futures
\* while a future is still in the queue of the pool
C15_NoStarvation ==
    ~(/\ Busy = max_workers
      /\ \A p \in DOMAIN task : (p # <<>> /\ task[p].st = "running") => Blocked(p)
      /\ \E p \in DOMAIN task : task[p].st = "pending")

\* C16 as stated: a task that has not started when its coordinator observes
\* the first failure never runs
C16_UnstartedNeverRuns ==
    [][\A p \in DOMAIN task : \A e \in Range(task[p].subm) :
          (task[p].st = "running" /\ task[p].phase = "cancel" /\ task[e].st = "pending")
          => task'[e].st # "running"]_vars

\* C16: the coordinator calls cancel() on every future it submitted before
\* it returns False; a future that no worker had taken when its cancel()
\* was called never runs, and a task that is running goes on to its end
C16_CancelBeforeReturn ==
    [][\A p \in DOMAIN task :
          /\ task[p].st = "cancelled" => task'[p].st = "cancelled"
          /\ task[p].st = "running" => task'[p].st \in {"running", "done"}
          /\ (task[p].st = "running" /\ task'[p].st = "done" /\ task'[p].out = "False")
             => \A e \in Range(task[p].subm) : task'[e].st # "pending"]_vars

\* the call has returned False and one of its futures was cancelled
C16_Witness ==
    /\ prog = "validate"
    /\ task[<<>>].st = "done" /\ task[<<>>].out = "False"
    /\ \E e \in Range(task[<<>>].subm) : task[e].st = "cancelled"
    /\ \E e \in Range(task[<<>>].subm) : task[e].st \in {"running", "done"}

\* C17 as stated: in both orchestrators every transfer is followed by a
\* validation before the next transfer and before the call ends
C17_TransferThenValidate ==
    \A i \in Idx("transfer") :
        IF i < Len(log) THEN log[i + 1].ev = "validate" ELSE ~Terminal

\* the last event of the call is a transfer
AfterTransfer == log # <<>> /\ Last(log).ev = "transfer"

\* C17: in hardcopy every transfer is followed by a validation; in
\* __main__.copy a transfer is followed by a validation when the
\* destination exists after it, and by no validation when it does not
C17_ValidationFollowsTransfer ==
    /\ [](AfterTransfer
          => \/ pc \in {"h_validate", "m_while"}
             \/ prog = "main" /\ ~exists(dest, <<>>) /\ pc \in {"m_copy", "returned"})
    /\ [][(AfterTransfer /\ pc \in {"h_validate", "m_while"})
          => IF prog = "hardcopy" \/ exists(dest, <<>>)
             THEN Len(log') = Len(log) + 1 /\ Last(log').ev = "validate"
             ELSE log' = log /\ pc' \in {"m_copy", "returned"}]_vars

\* __main__.copy has transferred a second time with no validation in between
C17_Witness ==
    /\ prog = "main"
    /\ \E i \in Idx("transfer") : i + 2 \in Idx("transfer")
    /\ \E i \in Idx("transfer") : i + 1 \in Idx("validate")

\* the steps a call can still take: every iteration of either loop logs at
\* most a preflight, a transfer and a validation, one more validation is
\* logged outside the iterations, and a loop condition that logs nothing
\* is followed by a statement that does or by the end of the call
StepsLeft ==
    2 * (3 * RetryCeiling + 1 - Len(log)) + (IF pc \in {"h_while", "m_while"} THEN 1 ELSE 0)

\* C18: the attempt counter starts at 0 and never exceeds 3, the transfer is
\* invoked at most 3 times, and the call ends after a bounded number of
\* steps: a call that has not ended can take a step, and every step lowers
\* StepsLeft, which is never negative
C18_AttemptsBounded ==
    /\ [](/\ attempts \in 0..RetryCeiling
          /\ Num("transfer") <= RetryCeiling
          /\ (log = <<>> => attempts = 0)
          /\ StepsLeft >= 0
          /\ (~Terminal => ENABLED Next))
    /\ [][StepsLeft' < StepsLeft]_vars

\* the call has ended after 3 transfers
C18_Witness == Terminal /\ attempts = RetryCeiling /\ Num("transfer") = RetryCeiling

\* C19: a transfer is invoked only when the destination is absent or the
\* last validation has returned False; with a destination that exists and is
\* a valid copy when the call begins the call returns with no transfer
C19_TransferOnlyWhenNeeded ==
    /\ []((Num("transfer") = 0 /\ exists(dest, <<>>) /\ IsValid(src, dest))
          => (pc \notin {"h_copy", "m_copy", "raised"} /\ Num("preflight") = 0))
    /\ [][Num("preflight")' > Num("preflight")
          => \/ ~exists(dest, <<>>)
             \/ log # <<>> /\ Last(log) = Event("validate", "False")]_vars

\* a transfer was invoked after a validation that returned False
C19_Witness ==
    \E i \in Idx("validate") :
        /\ log[i].res = "False"
        /\ i + 2 \in Idx("transfer")

\* C20: the executor is constructed at most once and every future of every
\* caller is submitted to that one executor
C20_OnePool ==
    /\ threadpool.created <= 1
    /\ \A t, u \in DOMAIN caller : Cardinality(caller[t].used \cup caller[u].used) <= 1

====
